---- MODULE Spec2Model ----
(***************************************************************************)
(* GeoCoin Carrier (src/src/main.ts): the cache table, the popup handlers  *)
(* (collect / deposit), player movement, reset and page reload, together   *)
(* with the browser's localStorage.                                        *)
(*                                                                         *)
(* Units.  Latitudes and longitudes are integers in microdegrees (1e-6     *)
(* degree).  The rounding of IEEE doubles is modelled where it changes     *)
(* what the program does, in the loop of populateNeighborhood (see         *)
(* RoundsBelow); elsewhere it is below a microdegree and arithmetic is     *)
(* exact.  luck() values are integers in thousandths.                      *)
(***************************************************************************)
EXTENDS Integers, Sequences, FiniteSets, TLC

VARIABLES
  playerLocation,   \* GameState.playerLocation
  cmPlayerLocation, \* CacheManager.playerLocation
  playerInventory,  \* GameState.playerInventory (its length is displayed)
  path,             \* GameState.path
  caches,           \* CacheManager.caches : key -> Cache
  cacheLayer,       \* rectangles of CacheManager.cacheLayer, each <<y, x>>
  popup,            \* the open popup and the values its closure captured
  locating,         \* the sensor button carries class "locating"
  localStorage,     \* the browser's durable key-value store
  lastOp,           \* history: the handler that ran last and what it did
  lastMut,          \* history: key -> coin list after its last collect/deposit
  generated         \* history: key -> coin list getCell generated last for it

vars == <<playerLocation, cmPlayerLocation, playerInventory, path, caches,
          cacheLayer, popup, locating, localStorage, lastOp, lastMut, generated>>

----------------------------------------------------------------------------
(* Bounds of the model *)

\* moves are possible while the travelled path has fewer points than this
MaxPath == 2
\* a transfer is possible while the receiving list has fewer coins than this
MaxCoins == 3

----------------------------------------------------------------------------
(* CONFIG *)

\* 1e-4 degree, in microdegrees
TILE_DEGREES == 100
NEIGHBORHOOD_SIZE == 8
\* 0.1, in thousandths
CACHE_SPAWN_PROBABILITY == 100
INITIAL_LOCATION == <<36989498, -122062777>>

\* locations the location sensor may report: 3 and 10 microdegrees south of
\* the initial location, and a place at latitude 19.432608
SensorFixes ==
  { <<INITIAL_LOCATION[1] - 3, INITIAL_LOCATION[2]>>,
    <<INITIAL_LOCATION[1] - 10, INITIAL_LOCATION[2]>>,
    <<19432608, -99133209>> }

\* the four movement buttons
directions ==
  { <<TILE_DEGREES, 0>>, <<0, TILE_DEGREES>>,
    <<0 - TILE_DEGREES, 0>>, <<0, 0 - TILE_DEGREES>> }

----------------------------------------------------------------------------
(* luck.ts: a pure function of the string "lat,lon" into [0, 1), here in   *)
(* thousandths.  Three situations fall under the spawn probability: the    *)
(* initial location (0.025) and the two sensor fixes (0.031 and 0.005).    *)

luck(lat, lon) ==
  LET dy == lat - INITIAL_LOCATION[1]
      dx == lon - INITIAL_LOCATION[2]
  IN  CASE dy = 0 /\ dx = 0      -> 25
        [] dy = 0 - 3 /\ dx = 0  -> 31
        [] dy = 0 - 10 /\ dx = 0 -> 5
        [] OTHER                 -> 101 + ((dy * 7 + dx * 13) % 899)

----------------------------------------------------------------------------
(* JavaScript values *)

\* an Array<Coin>, or undefined
Arr(s) == [isArray |-> TRUE, items |-> s]
Undefined == [isArray |-> FALSE, items |-> <<>>]

\* JSON.stringify / JSON.parse: a string is JSON text or it is not
JSON_stringify(v) == [text |-> "json", value |-> v]
Parses(s) == s.text = "json"
JSON_parse(s) == s.value

\* localStorage.getItem answers null or a string
Absent == <<>>
Some(v) == <<v>>

EmptyMap == [k \in {} |-> Undefined]
Put(f, k, v) == [q \in (DOMAIN f) \cup {k} |-> IF q = k THEN v ELSE f[q]]

EmptyStorage ==
  [cells |-> EmptyMap, playerCoin |-> Absent,
   playerLocation |-> Absent, savedPath |-> Absent]

----------------------------------------------------------------------------
(* class Cache *)

Cache(coins) == [coins |-> coins]

\* JSON.stringify({ coins: this.coins })
Cache_toMomento(cache) == JSON_stringify([coins |-> cache.coins])

\* this.coins = JSON.parse(momento).coins; Parses(momento) is its precondition
Cache_fromMomento(momento) == Cache(JSON_parse(momento).coins)

----------------------------------------------------------------------------
(* class CacheManager *)

\* Math.floor(lat * 100000), on microdegrees
getKey(lat, lon) == <<lat \div 10, lon \div 10>>

\* The loop variable after 2 * NEIGHBORHOOD_SIZE additions of TILE_DEGREES to
\* p - TILE_DEGREES * NEIGHBORHOOD_SIZE, against the loop's limit
\* p + TILE_DEGREES * NEIGHBORHOOD_SIZE.  In doubles 1e-4 has no exact
\* representation and every addition rounds.  At the coordinates of magnitude
\* in [16, 32) degrees that the player reaches here the sum stays below the
\* limit (at 19.432608 it is 19.433407999999993 against 19.433408); at those in
\* [32, 180) it does not (at 36.989498, at -122.062777 and at -99.133209 the
\* loop ends there).
RoundsBelow(p) ==
  LET a == IF p < 0 THEN 0 - p ELSE p
  IN  a >= 16000000 /\ a < 32000000

\* the steps of `for (y = p - T * N; y < p + T * N; y += T)`, as multiples of T
\* from p
LoopOffsets(p) ==
  ((0 - NEIGHBORHOOD_SIZE)..(NEIGHBORHOOD_SIZE - 1))
    \cup (IF RoundsBelow(p) THEN {NEIGHBORHOOD_SIZE} ELSE {})

\* the cells one neighbourhood pass examines
NeighborhoodCells(loc) ==
  { <<loc[1] + k * TILE_DEGREES, loc[2] + l * TILE_DEGREES>> :
      k \in LoopOffsets(loc[1]), l \in LoopOffsets(loc[2]) }

\* the rectangles placed by one pass
populateNeighborhood(loc) ==
  { c \in NeighborhoodCells(loc) : luck(c[1], c[2]) <= CACHE_SPAWN_PROBABILITY }

\* populateNeighborhood tabulated over the locations within MaxPath moves of
\* the initial location or of a sensor fix
LayerTable ==
  [loc \in { <<b[1] + k * TILE_DEGREES, b[2] + l * TILE_DEGREES>> :
               b \in {INITIAL_LOCATION} \cup SensorFixes,
               k \in (0 - MaxPath)..MaxPath, l \in (0 - MaxPath)..MaxPath }
     |-> populateNeighborhood(loc)]

placedCaches(loc) ==
  IF loc \in DOMAIN LayerTable THEN LayerTable[loc] ELSE populateNeighborhood(loc)

\* mutant of NewCoins: the loop runs while i <= floor(luck * 100)
NewCoins_Inclusive(key, lat, lon) ==
  [i \in 1..((luck(lat, lon) \div 10) + 1) |->
     [serial |-> <<key[1], key[2], i - 1>>]]

\* the loop of getCell: coins key#0 .. key#(n-1), n = floor(luck * 100)
NewCoins(key, lat, lon) ==
  [i \in 1..(luck(lat, lon) \div 10) |-> [serial |-> <<key[1], key[2], i - 1>>]]

\* the table after getCell(lat, lon); the cache returned is its entry for the key
getCell(tbl, lat, lon) ==
  LET key == getKey(lat, lon)
  IN  IF key \in DOMAIN tbl
      THEN tbl
      ELSE Put(tbl, key, Cache(Arr(NewCoins(key, lat, lon))))

saveCache(ls, key, cache) ==
  [ls EXCEPT !.cells = Put(@, key, Cache_toMomento(cache))]

\* mutant of restoreCache: a snapshot with no coins counts as no snapshot
restoreCache_DropsEmpty(tbl, ls, key) ==
  IF key \in DOMAIN ls.cells
  THEN LET momento == ls.cells[key]
       IN  IF Parses(momento)
           THEN [caches |-> IF JSON_parse(momento).coins.items = <<>>
                            THEN tbl
                            ELSE Put(tbl, key, Cache_fromMomento(momento)),
                 err |-> "none"]
           ELSE [caches |-> tbl, err |-> "SyntaxError"]
  ELSE [caches |-> tbl, err |-> "none"]

\* the table after restoreCache(key), and the error it threw
restoreCache(tbl, ls, key) ==
  IF key \in DOMAIN ls.cells
  THEN LET momento == ls.cells[key]
       IN  IF Parses(momento)
           THEN [caches |-> Put(tbl, key, Cache_fromMomento(momento)),
                 err |-> "none"]
           ELSE [caches |-> tbl, err |-> "SyntaxError"]
  ELSE [caches |-> tbl, err |-> "none"]

\* mutant of updateCache: shift() in place of pop()
updateCache_TakesFirst(targetInventory, sourceInventory, ls) ==
  IF Len(sourceInventory) > 0
  THEN LET coin == sourceInventory[1]
           target == Append(targetInventory, coin)
       IN  [target |-> target,
            source |-> SubSeq(sourceInventory, 2, Len(sourceInventory)),
            ls |-> [ls EXCEPT !.playerCoin = Some(JSON_stringify(target))]]
  ELSE [target |-> targetInventory, source |-> sourceInventory, ls |-> ls]

\* updateCache(targetInventory, sourceInventory): both arrays and the store after
updateCache(targetInventory, sourceInventory, ls) ==
  IF Len(sourceInventory) > 0
  THEN LET coin == sourceInventory[Len(sourceInventory)]
           target == Append(targetInventory, coin)
       IN  [target |-> target,
            source |-> SubSeq(sourceInventory, 1, Len(sourceInventory) - 1),
            ls |-> [ls EXCEPT !.playerCoin = Some(JSON_stringify(target))]]
  ELSE [target |-> targetInventory, source |-> sourceInventory, ls |-> ls]

\* mutant of clearCaches: the snapshots of the caches dropped are removed too
clearCaches_RemovesSnapshots(tbl, ls) ==
  [caches |-> EmptyMap,
   cacheLayer |-> {},
   ls |-> [ls EXCEPT !.cells =
             [k \in (DOMAIN ls.cells) \ (DOMAIN tbl) |-> ls.cells[k]]]]

\* clearCaches(): the table and the layer are emptied, the store is not touched
clearCaches(tbl, ls) ==
  [caches |-> EmptyMap, cacheLayer |-> {}, ls |-> ls]

----------------------------------------------------------------------------
(* The browser's store *)

\* mutant of localStorage_clear: the path written last survives
localStorage_clear_KeepsPath(ls) ==
  [EmptyStorage EXCEPT !.savedPath = ls.savedPath]

\* localStorage.clear()
localStorage_clear(ls) == EmptyStorage

\* the number of keys localStorage.clear() removes
StoredKeys(ls) ==
  Cardinality(DOMAIN ls.cells)
  + Len(ls.playerCoin) + Len(ls.playerLocation) + Len(ls.savedPath)

----------------------------------------------------------------------------
(* class GameState *)

\* GameState.resetMap: the path, the store, and the cleared and repopulated map
resetMap(loc, pth, tbl, ls) ==
  LET newPath == Append(pth, loc)
      saved == [ls EXCEPT !.savedPath = Some(JSON_stringify(newPath))]
      cleared == clearCaches(tbl, saved)
  IN  [path |-> newPath,
       ls |-> cleared.ls,
       caches |-> cleared.caches,
       cacheLayer |-> cleared.cacheLayer \cup placedCaches(loc)]

NoPopup == [open |-> FALSE, y |-> 0, x |-> 0, playerInventory |-> <<>>]

Op(name) ==
  [name |-> name, y |-> 0, x |-> 0, err |-> "none",
   tableMiss |-> FALSE, malformed |-> FALSE, generatedNow |-> FALSE,
   moved |-> FALSE, cacheWrites |-> <<>>, notified |-> <<>>,
   evicted |-> 0, removed |-> 0]

\* new GameState() on the given store
Construct(ls) ==
  LET loc == IF ls.playerLocation # Absent
             THEN JSON_parse(ls.playerLocation[1])
             ELSE INITIAL_LOCATION
  IN  /\ playerInventory' = IF ls.playerCoin # Absent
                            THEN JSON_parse(ls.playerCoin[1])
                            ELSE <<>>
      /\ playerLocation' = loc
      /\ cmPlayerLocation' = loc
      /\ path' = IF ls.savedPath # Absent
                 THEN JSON_parse(ls.savedPath[1])
                 ELSE <<loc>>
      /\ caches' = EmptyMap
      /\ cacheLayer' = placedCaches(loc)
      /\ popup' = NoPopup
      /\ locating' = FALSE
      /\ localStorage' = ls

Init ==
  /\ playerInventory = <<>>
  /\ playerLocation = INITIAL_LOCATION
  /\ cmPlayerLocation = INITIAL_LOCATION
  /\ path = <<INITIAL_LOCATION>>
  /\ caches = EmptyMap
  /\ cacheLayer = placedCaches(INITIAL_LOCATION)
  /\ popup = NoPopup
  /\ locating = FALSE
  /\ localStorage = EmptyStorage
  /\ lastOp = Op("init")
  /\ lastMut = EmptyMap
  /\ generated = EmptyMap

----------------------------------------------------------------------------
(* The handlers *)

\* the function bound to a rectangle's popup, run when the popup opens
OpenPopup(y, x) ==
  /\ <<y, x>> \in cacheLayer
  /\ LET key == getKey(y, x)
         r == restoreCache(caches, localStorage, key)
         tbl == getCell(r.caches, y, x)
         cachedCoins == tbl[key].coins
         inv == IF localStorage.playerCoin # Absent
                THEN JSON_parse(localStorage.playerCoin[1])
                ELSE <<>>
         miss == key \notin DOMAIN r.caches
         op == [Op("open") EXCEPT
                  !.y = y, !.x = x,
                  !.tableMiss = key \notin DOMAIN caches,
                  !.malformed =
                      /\ key \in DOMAIN localStorage.cells
                      /\ \/ ~Parses(localStorage.cells[key])
                         \/ ~JSON_parse(localStorage.cells[key]).coins.isArray,
                  !.generatedNow = (r.err = "none" /\ miss)]
     IN  IF r.err # "none"
         THEN /\ caches' = caches
              /\ generated' = generated
              /\ popup' = NoPopup
              /\ lastOp' = [op EXCEPT !.err = r.err]
         ELSE /\ caches' = tbl
              /\ generated' = IF miss
                              THEN Put(generated, key, cachedCoins.items)
                              ELSE generated
              /\ IF cachedCoins.isArray
                 THEN /\ popup' = [open |-> TRUE, y |-> y, x |-> x,
                                   playerInventory |-> inv]
                      /\ lastOp' = op
                 ELSE /\ popup' = NoPopup
                      /\ lastOp' = [op EXCEPT !.err = "TypeError"]
  /\ UNCHANGED <<playerLocation, cmPlayerLocation, playerInventory, path,
                 cacheLayer, locating, localStorage, lastMut>>

\* the click listener of #collect
CollectClick ==
  /\ popup.open
  /\ LET y == popup.y
         x == popup.x
         key == getKey(y, x)
         cachedCoins == caches[key].coins.items
         u == updateCache(popup.playerInventory, cachedCoins, localStorage)
         tbl == getCell([caches EXCEPT ![key] = Cache(Arr(u.source))], y, x)
         ls == saveCache(u.ls, key, tbl[key])
     IN  /\ Len(cachedCoins) > 0 => Len(popup.playerInventory) < MaxCoins
         /\ caches' = tbl
         /\ localStorage' = ls
         /\ playerInventory' = u.target
         /\ popup' = [popup EXCEPT !.playerInventory = u.target]
         /\ lastMut' = Put(lastMut, key, tbl[key].coins.items)
         /\ lastOp' = [Op("collect") EXCEPT
                         !.y = y, !.x = x,
                         !.moved = Len(cachedCoins) > 0,
                         !.cacheWrites = <<ls.cells[key]>>,
                         !.notified = <<u.target>>]
  /\ UNCHANGED <<playerLocation, cmPlayerLocation, path, cacheLayer, locating,
                 generated>>

\* the click listener of #deposit
DepositClick ==
  /\ popup.open
  /\ LET y == popup.y
         x == popup.x
         key == getKey(y, x)
         cachedCoins == caches[key].coins.items
         u == updateCache(cachedCoins, popup.playerInventory, localStorage)
         tbl == getCell([caches EXCEPT ![key] = Cache(Arr(u.target))], y, x)
         ls == saveCache(u.ls, key, tbl[key])
     IN  /\ Len(popup.playerInventory) > 0 => Len(cachedCoins) < MaxCoins
         /\ caches' = tbl
         /\ localStorage' = ls
         /\ playerInventory' = u.target
         /\ popup' = [popup EXCEPT !.playerInventory = u.source]
         /\ lastMut' = Put(lastMut, key, tbl[key].coins.items)
         /\ lastOp' = [Op("deposit") EXCEPT
                         !.y = y, !.x = x,
                         !.moved = Len(popup.playerInventory) > 0,
                         !.cacheWrites = <<ls.cells[key]>>,
                         !.notified = <<u.target>>]
  /\ UNCHANGED <<playerLocation, cmPlayerLocation, path, cacheLayer, locating,
                 generated>>

\* GameState.movePlayer, from a click on a movement button
MoveClick(d) ==
  /\ Len(path) < MaxPath
  /\ LET loc == <<playerLocation[1] + d[1], playerLocation[2] + d[2]>>
         ls == [localStorage EXCEPT
                  !.playerLocation = Some(JSON_stringify(loc))]
         m == resetMap(loc, path, caches, ls)
     IN  /\ playerLocation' = loc
         /\ cmPlayerLocation' = loc
         /\ path' = m.path
         /\ localStorage' = m.ls
         /\ caches' = m.caches
         /\ cacheLayer' = m.cacheLayer
  /\ popup' = NoPopup
  /\ lastOp' = [Op("move") EXCEPT !.evicted = Cardinality(DOMAIN caches)]
  /\ UNCHANGED <<playerInventory, locating, lastMut, generated>>

\* the click listener of #sensor
SensorClick ==
  /\ locating' = ~locating
  /\ lastOp' = Op("sensor")
  /\ UNCHANGED <<playerLocation, cmPlayerLocation, playerInventory, path,
                 caches, cacheLayer, popup, localStorage, lastMut, generated>>

\* the "locationfound" listener
LocationFound(fix) ==
  /\ locating
  /\ Len(path) < MaxPath
  /\ LET m == resetMap(fix, path, caches, localStorage)
     IN  /\ playerLocation' = fix
         /\ cmPlayerLocation' = fix
         /\ path' = m.path
         /\ localStorage' = m.ls
         /\ caches' = m.caches
         /\ cacheLayer' = m.cacheLayer
  /\ popup' = NoPopup
  /\ lastOp' = [Op("locationfound") EXCEPT
                  !.evicted = Cardinality(DOMAIN caches)]
  /\ UNCHANGED <<playerInventory, locating, lastMut, generated>>

\* the click listener of #reset; answer is what the prompt returned
ResetClick(answer) ==
  IF answer = "Yes"
  THEN LET m == resetMap(INITIAL_LOCATION, path, caches, localStorage)
       IN  /\ playerInventory' = <<>>
           /\ playerLocation' = INITIAL_LOCATION
           /\ cmPlayerLocation' = INITIAL_LOCATION
           /\ caches' = m.caches
           /\ cacheLayer' = m.cacheLayer
           /\ path' = <<INITIAL_LOCATION>>
           /\ localStorage' = localStorage_clear(m.ls)
           /\ popup' = NoPopup
           /\ lastOp' = [Op("reset") EXCEPT
                           !.evicted = Cardinality(DOMAIN caches),
                           !.removed = StoredKeys(m.ls)]
           /\ lastMut' = EmptyMap
           /\ UNCHANGED <<locating, generated>>
  ELSE UNCHANGED vars

\* the page is loaded again: new GameState() on the store as it is
Reload ==
  /\ Construct(localStorage)
  /\ lastOp' = Op("reload")
  /\ UNCHANGED <<lastMut, generated>>

Next ==
  \/ \E c \in cacheLayer : OpenPopup(c[1], c[2])
  \/ CollectClick
  \/ DepositClick
  \/ \E d \in directions : MoveClick(d)
  \/ SensorClick
  \/ \E fix \in SensorFixes : LocationFound(fix)
  \/ \E answer \in {"Yes", "No"} : ResetClick(answer)
  \/ Reload

Spec == Init /\ [][Next]_vars

----------------------------------------------------------------------------
(* A first page load on a store that already holds per-cell entries that   *)
(* are not cache snapshots: text that is not JSON, or a JSON object        *)
(* without a coin list.                                                    *)

Garbage == [text |-> "garbage", value |-> [coins |-> Undefined]]
NoCoinList == JSON_stringify([coins |-> Undefined])

\* the keys of the rectangles placed at the initial location and at the fixes
PlacedKeys ==
  { getKey(c[1], c[2]) :
      c \in UNION { placedCaches(loc) : loc \in {INITIAL_LOCATION} \cup SensorFixes } }

InitMalformed ==
  /\ playerInventory = <<>>
  /\ playerLocation = INITIAL_LOCATION
  /\ cmPlayerLocation = INITIAL_LOCATION
  /\ path = <<INITIAL_LOCATION>>
  /\ caches = EmptyMap
  /\ cacheLayer = placedCaches(INITIAL_LOCATION)
  /\ popup = NoPopup
  /\ locating = FALSE
  /\ \E S \in SUBSET PlacedKeys :
       \E f \in [S -> {Garbage, NoCoinList}] :
         localStorage = [EmptyStorage EXCEPT !.cells = f]
  /\ lastOp = Op("init")
  /\ lastMut = EmptyMap
  /\ generated = EmptyMap

SpecMalformed == InitMalformed /\ [][Next]_vars

----------------------------------------------------------------------------
(* Vocabulary of the properties *)

\* the inventory persisted under "playerCoin", empty when the key is absent
PersistedInventory ==
  IF localStorage.playerCoin # Absent
  THEN JSON_parse(localStorage.playerCoin[1])
  ELSE <<>>

\* the key of the rectangle the last popup handler ran for
OpKey == getKey(lastOp.y, lastOp.x)
\* the key of the rectangle whose popup is open
PopupKey == getKey(popup.y, popup.x)

\* every cache that exists: in the table, in the store, or generated before and
\* since dropped from the table without ever having been saved
KnownKeys == (DOMAIN caches) \cup (DOMAIN localStorage.cells) \cup (DOMAIN generated)

CurrentCoins(k) ==
  IF k \in DOMAIN caches THEN caches[k].coins.items
  ELSE IF k \in DOMAIN localStorage.cells
       THEN JSON_parse(localStorage.cells[k]).coins.items
       ELSE generated[k]

Range(seq) == { seq[i] : i \in DOMAIN seq }
Occurrences(seq, c) == Cardinality({ i \in DOMAIN seq : seq[i] = c })

\* the coins generated so far
Minted == UNION { Range(generated[k]) : k \in DOMAIN generated }

\* how many times coin c is held, over all caches and the inventory inv
Held(c, inv) ==
  Occurrences(inv, c)
  + Cardinality({ p \in UNION { { <<k, i>> : i \in DOMAIN CurrentCoins(k) } :
                                k \in KnownKeys } :
                  CurrentCoins(p[1])[p[2]] = c })

HeldCoins(inv) ==
  Range(inv) \cup UNION { Range(CurrentCoins(k)) : k \in KnownKeys }

----------------------------------------------------------------------------
(* C1 *)

\* C1: every coin generated is held exactly once, in one cache's coin list or
\* in the player inventory, and nothing else is held; this for the inventory
\* persisted under "playerCoin" and for the one delivered to the
\* inventory-changed callback (GameState.playerInventory).
C1_CoinsConserved ==
  \A inv \in {PersistedInventory, playerInventory} :
    \A c \in Minted \cup HeldCoins(inv) :
      Held(c, inv) = IF c \in Minted THEN 1 ELSE 0

----------------------------------------------------------------------------
(* C2 *)

\* C2: one click on Deposit moves the whole player inventory I the popup holds
\* to the cache, after the cache's coins C and in the order of I: the cache
\* holds C ++ I and the inventory in hand is empty.
C2_DepositMovesWholeInventory ==
  [][ lastOp'.name = "deposit" =>
        LET C == caches[PopupKey].coins.items
            I == popup.playerInventory
        IN  /\ caches'[PopupKey].coins.items = C \o I
            /\ popup'.playerInventory = <<>> ]_vars

----------------------------------------------------------------------------
(* C3 *)

\* C3: one click on Collect on a cache whose coin list C is not empty removes
\* the last coin of C and nothing else, and appends it to the end of the player
\* inventory I the popup holds; the result is what is persisted under
\* "playerCoin" and delivered to the game, and no other cache changes.
C3_CollectTakesLastCoin ==
  [][ (lastOp'.name = "collect" /\ caches[PopupKey].coins.items # <<>>) =>
        LET C == caches[PopupKey].coins.items
            I == popup.playerInventory
        IN  /\ caches'[PopupKey].coins.items = SubSeq(C, 1, Len(C) - 1)
            /\ popup'.playerInventory = I \o <<C[Len(C)]>>
            /\ PersistedInventory' = I \o <<C[Len(C)]>>
            /\ playerInventory' = I \o <<C[Len(C)]>>
            /\ DOMAIN caches' = DOMAIN caches
            /\ \A k \in (DOMAIN caches) \ {PopupKey} : caches'[k] = caches[k] ]_vars

\* a collect that moved a coin onto an inventory holding a coin already, out of
\* a cache that keeps a coin
C3_Witness ==
  /\ lastOp.name = "collect"
  /\ lastOp.moved
  /\ Len(popup.playerInventory) >= 2
  /\ Len(caches[OpKey].coins.items) >= 1

----------------------------------------------------------------------------
(* C4 *)

\* C4: when a popup opens, the coin list shown for its cell is the one the
\* cell's cache had after its last collect or deposit, whatever moves and page
\* loads came in between, or the list getCell generates for the rectangle when
\* there was none (a reset, which empties the store, starts the history anew).
\* A cache emptied to zero coins is shown empty.
C4_QueryShowsLastState ==
  (lastOp.name = "open" /\ lastOp.err = "none") =>
    /\ OpKey \in DOMAIN caches
    /\ caches[OpKey].coins =
         Arr(IF OpKey \in DOMAIN lastMut
             THEN lastMut[OpKey]
             ELSE NewCoins(OpKey, lastOp.y, lastOp.x))

\* a cache that was emptied, dropped from the table, and queried again
C4_Witness ==
  /\ lastOp.name = "open"
  /\ lastOp.tableMiss
  /\ OpKey \in DOMAIN lastMut
  /\ lastMut[OpKey] = <<>>
  /\ NewCoins(OpKey, lastOp.y, lastOp.x) # <<>>
  /\ caches[OpKey].coins = Arr(<<>>)

----------------------------------------------------------------------------
(* C5 *)

\* C5: opening the popup of a cell whose durable entry is malformed raises no
\* error, and the cache is installed with its freshly generated coins.
C5_MalformedEntryTreatedAsAbsent ==
  (lastOp.name = "open" /\ lastOp.malformed) =>
    /\ lastOp.err = "none"
    /\ OpKey \in DOMAIN caches
    /\ caches[OpKey].coins = Arr(NewCoins(OpKey, lastOp.y, lastOp.x))

----------------------------------------------------------------------------
(* C6 *)

\* C6: a click on Collect at a cache with no coins, or on Deposit with an empty
\* inventory in hand, raises no error and changes neither the cache's coin
\* list, nor the game's inventory, nor the persisted inventory.
C6_EmptySourceIsNoOp ==
  [][ ( \/ lastOp'.name = "collect" /\ caches[PopupKey].coins.items = <<>>
        \/ lastOp'.name = "deposit" /\ popup.playerInventory = <<>> ) =>
        /\ lastOp'.err = "none"
        /\ caches'[PopupKey].coins = caches[PopupKey].coins
        /\ playerInventory' = playerInventory
        /\ PersistedInventory' = PersistedInventory ]_vars

----------------------------------------------------------------------------
(* C7 *)

\* C7: a click on Collect or Deposit writes the cache's snapshot once, equal to
\* the cache's coin list after the move, and notifies once, with the player
\* inventory after the move.
C7_OneSnapshotOneNotification ==
  lastOp.name \in {"collect", "deposit"} =>
    /\ Len(lastOp.cacheWrites) = 1
    /\ lastOp.cacheWrites[1] = JSON_stringify([coins |-> caches[OpKey].coins])
    /\ Len(lastOp.notified) = 1
    /\ lastOp.notified[1] = popup.playerInventory

----------------------------------------------------------------------------
(* C8 *)

\* C8: whenever getCell generates the coins of a cell it generated before, it
\* generates the same list; and when a popup opens on a cell that is in the
\* table and has no durable entry, the table's entry is left as it is.
C8_MaterializeDeterministic ==
  [][ /\ \A k \in (DOMAIN generated) \cap (DOMAIN generated') :
           generated'[k] = generated[k]
      /\ ( /\ lastOp'.name = "open"
           /\ getKey(lastOp'.y, lastOp'.x) \in DOMAIN caches
           /\ getKey(lastOp'.y, lastOp'.x) \notin DOMAIN localStorage.cells )
         => caches' = caches ]_vars

----------------------------------------------------------------------------
(* C9 *)

\* C9 as amended: a cache getCell generates holds floor(luck * 100) coins, luck
\* being the value that passed the spawn check (at most 0.1), so between 0 and
\* 10 coins; coin number i (from 0) carries the serial made of the cell's key
\* and i.
C9_InitialCoinsFromLuck ==
  (lastOp.name = "open" /\ lastOp.generatedNow) =>
    LET coins == caches[OpKey].coins.items
        l == luck(lastOp.y, lastOp.x)
    IN  /\ l <= CACHE_SPAWN_PROBABILITY
        /\ Len(coins) = (l * 100) \div 1000
        /\ Len(coins) \in 0..10
        /\ \A i \in 1..Len(coins) :
             coins[i] = [serial |-> <<OpKey[1], OpKey[2], i - 1>>]

\* a cache generated with no coin at all
C9_Witness ==
  /\ lastOp.name = "open"
  /\ lastOp.generatedNow
  /\ caches[OpKey].coins = Arr(<<>>)

\* C9 as stated: floor(luck * 3 + 1) coins, so between 1 and 3, serials
\* 0 .. count-1 of that cell.
C9_OneToThreeCoins ==
  (lastOp.name = "open" /\ lastOp.generatedNow) =>
    LET coins == caches[OpKey].coins.items
        l == luck(lastOp.y, lastOp.x)
    IN  /\ Len(coins) = (l * 3 + 1000) \div 1000
        /\ Len(coins) \in 1..3
        /\ \A i \in 1..Len(coins) :
             coins[i] = [serial |-> <<OpKey[1], OpKey[2], i - 1>>]

----------------------------------------------------------------------------
(* C10 *)

\* the tile of a location: floor(lat / tileSize), floor(lng / tileSize)
ToCell(loc) == <<loc[1] \div TILE_DEGREES, loc[2] \div TILE_DEGREES>>

\* the keys of the cells one neighbourhood pass examines
KeysExamined(loc) == { getKey(c[1], c[2]) : c \in NeighborhoodCells(loc) }

\* C10: two successive player locations in the same tile get the same key and
\* their passes examine the same cells; two in different tiles get different
\* keys.
C10_KeyIsTheTile ==
  [][ LET a == cmPlayerLocation
          b == cmPlayerLocation'
      IN  a # b =>
            /\ ToCell(a) = ToCell(b) =>
                 /\ getKey(a[1], a[2]) = getKey(b[1], b[2])
                 /\ KeysExamined(a) = KeysExamined(b)
            /\ ToCell(a) # ToCell(b) =>
                 getKey(a[1], a[2]) # getKey(b[1], b[2]) ]_vars

----------------------------------------------------------------------------
(* C11 *)

\* C11: the pass made for the player's location examines exactly
\* (2 * NEIGHBORHOOD_SIZE)^2 distinct cells, those at offsets (di, dj) from the
\* player's cell with di and dj in [-NEIGHBORHOOD_SIZE, NEIGHBORHOOD_SIZE), and
\* the player's own cell is one of them.
C11_PassExaminesSquare ==
  LET loc == cmPlayerLocation
      r == NEIGHBORHOOD_SIZE
      cells == NeighborhoodCells(loc)
  IN  /\ Cardinality(cells) = (2 * r) * (2 * r)
      /\ cells = { <<loc[1] + di * TILE_DEGREES, loc[2] + dj * TILE_DEGREES>> :
                     di \in (0 - r)..(r - 1), dj \in (0 - r)..(r - 1) }
      /\ loc \in cells

----------------------------------------------------------------------------
(* C12 *)

\* C12: a button move or a sensor update, which empties the table, writes,
\* overwrites and deletes no per-cell entry of the store: the per-cell entries
\* and their values are the same before and after.
C12_EvictionKeepsSnapshots ==
  [][ lastOp'.name \in {"move", "locationfound"} =>
        localStorage'.cells = localStorage.cells ]_vars

\* a move or sensor update that dropped a cache from the table while the store
\* held a snapshot
C12_Witness ==
  /\ lastOp.name \in {"move", "locationfound"}
  /\ lastOp.evicted >= 1
  /\ caches = EmptyMap
  /\ DOMAIN localStorage.cells # {}

----------------------------------------------------------------------------
(* C13 *)

\* C13: the game's player inventory, whose length the status panel displays,
\* equals the inventory persisted under "playerCoin" (empty when the key is
\* absent), after every operation.
C13_InventoryIsThePersisted ==
  playerInventory = PersistedInventory

----------------------------------------------------------------------------
(* C14 *)

\* C14: when a confirmed reset completes the store holds no entry, the player
\* inventory is empty, the player is at the initial location and the path is
\* that single point; and the popup opened next shows the coins getCell
\* generates for its rectangle, as in a first session.
C14_ResetStartsAnew ==
  [][ /\ lastOp'.name = "reset" =>
           /\ localStorage' = EmptyStorage
           /\ StoredKeys(localStorage') = 0
           /\ playerInventory' = <<>>
           /\ playerLocation' = INITIAL_LOCATION
           /\ cmPlayerLocation' = INITIAL_LOCATION
           /\ path' = <<INITIAL_LOCATION>>
      /\ (lastOp.name = "reset" /\ lastOp'.name = "open") =>
           LET key == getKey(lastOp'.y, lastOp'.x)
           IN  /\ lastOp'.err = "none"
               /\ key \in DOMAIN caches'
               /\ caches'[key].coins =
                    Arr(NewCoins(key, lastOp'.y, lastOp'.x)) ]_vars

\* a reset that found a cache in the table and, in the store, a snapshot, the
\* inventory, the location and the path
C14_Witness ==
  /\ lastOp.name = "reset"
  /\ lastOp.evicted >= 1
  /\ lastOp.removed >= 4
  /\ DOMAIN generated # {}

----------------------------------------------------------------------------
(* C15 *)

\* C15: after a button move or a sensor update, the location persisted under
\* "playerLocation" is the player's current location, and it is the last
\* point of the path persisted under "savedPath".
C15_PersistedLocationIsCurrent ==
  lastOp.name \in {"move", "locationfound"} =>
    /\ localStorage.playerLocation = Some(JSON_stringify(playerLocation))
    /\ localStorage.savedPath # Absent
    /\ LET saved == JSON_parse(localStorage.savedPath[1])
       IN  saved[Len(saved)] = playerLocation

====
